---------------------------- MODULE Spec2Model ----------------------------
(***************************************************************************)
(* A model of src/script.js (Radio MNS site script): the "now playing"     *)
(* resolver computeNowFromScheduleDOM, its helpers fmt / escapeHtml /      *)
(* toMinutes, the loader loadCurrentProgramFromPrograma, and the page      *)
(* widgets initCarousel, initHeaderSticky and initDayTabs.                 *)
(*                                                                         *)
(* Strings are sequences of one-character strings, so that the regular     *)
(* expressions, parseInt, padStart, toLowerCase and escapeHtml of the      *)
(* source are computed character by character.  Two characters that are    *)
(* not ASCII are written as symbols: "ndash" is U+2013 (the en dash) and   *)
(* "arrow" is U+2192 (the right arrow).                                    *)
(***************************************************************************)
EXTENDS Integers, Sequences, FiniteSets, TLC

VARIABLES
    doc,        \* the .schedule-day nodes of the current document
    hasTarget,  \* whether the document has an element with id now-playing
    target,     \* innerHTML of #now-playing
    computed,   \* whether computeNowFromScheduleDOM has returned at least once
    clockDay,   \* new Date().getDay() read by the last computeNow call
    clockMin,   \* getHours()*60 + getMinutes() of that call (nowMinutes)
    program,    \* the local `found` of that call
    out,        \* the {html, found} object that call returned
    fmtIn,      \* argument of the last fmt call (a nullable number)
    fmtOut,     \* the string the last fmt call returned
    loaded,     \* whether the DOMContentLoaded handler has run
    timerOn,    \* whether the 30-second setInterval of the handler is registered
    calls,      \* the calls of loadCurrentProgramFromPrograma so far, in start order
    slides,     \* track.children.length of the carousel
    index,      \* `index` of initCarousel
    autoplay,   \* `autoplay` of initCarousel
    timer,      \* `timer` of initCarousel (a nullable interval id)
    live,       \* the interval ids set by setInterval(next, ...) and not cleared
    nextTimerId,\* the id the next setInterval returns
    touching,   \* whether a touch on the track has started and not ended
    deltaX,     \* `deltaX` of initCarousel
    trackShift, \* the deltaX term of track.style.transform
    activeDot,  \* the dot that has class active
    hover,      \* whether the pointer is over the carousel
    focus,      \* whether the focus is inside the carousel
    header,     \* #site-header: "absent", or its class "plain" / "scrolled"
    scrollY,    \* window.scrollY
    scrollEvt,  \* whether a scroll event is queued for dispatch
    ticking,    \* `ticking` of initHeaderSticky
    rafPending, \* the requestAnimationFrame(update) callbacks not yet run
    tabs,       \* the .day-tab buttons of the container: data-day and aria-pressed
    hidden,     \* per .schedule-day node of doc, whether it has class hidden
    tabsReady   \* whether initDayTabs(container) has returned

resolverVars == <<doc, hasTarget, target, computed, clockDay, clockMin, program, out>>

fmtVars == <<fmtIn, fmtOut>>

loaderVars == <<loaded, timerOn, calls>>

carouselVars ==
    <<slides, index, autoplay, timer, live, nextTimerId, touching, deltaX,
      trackShift, activeDot, hover, focus>>

headerVars == <<header, scrollY, scrollEvt, ticking, rafPending>>

tabVars == <<tabs, hidden, tabsReady>>

uiVars == <<carouselVars, headerVars, tabVars>>

vars == <<resolverVars, fmtVars, loaderVars, uiVars>>

\* JavaScript null / undefined where a character or a string is expected.
NULL == "null"

\* A nullable number is a sequence: null is <<>>, the number n is <<n>>.
null == <<>>

\* The result of a String.match that found nothing.
NoMatch == [ok |-> FALSE]

\* F(v) with v evaluated once, as a `const x = v` of the source is: the
\* value of v is bound to x before F is applied.
Bind(v, F(_)) == CHOOSE r \in {F(x) : x \in {v}} : TRUE

(***************************************************************************)
(* Characters and string primitives                                        *)
(***************************************************************************)
Digits == {"0", "1", "2", "3", "4", "5", "6", "7", "8", "9"}

DigitChars == <<"0", "1", "2", "3", "4", "5", "6", "7", "8", "9">>

\* The value of a decimal digit character.
DigitVal(c) == (CHOOSE k \in 1..10 : DigitChars[k] = c) - 1

\* \s of the regular expressions and the white space String.trim strips.
IsSpace(c) == c \in {" ", "\t", "\n"}

\* [-ndash] of the regular expressions: hyphen or en dash.
IsDash(c) == c \in {"-", "ndash"}

\* s[i] when i is an index of s, else a value that is no character.
At(s, i) == IF i \in 1..Len(s) THEN s[i] ELSE NULL

\* String.prototype.trim
RECURSIVE TrimLeft(_)
TrimLeft(s) == IF s # <<>> /\ IsSpace(Head(s)) THEN TrimLeft(Tail(s)) ELSE s

RECURSIVE TrimRight(_)
TrimRight(s) ==
    IF s # <<>> /\ IsSpace(s[Len(s)]) THEN TrimRight(SubSeq(s, 1, Len(s) - 1)) ELSE s

trim(s) == TrimRight(TrimLeft(s))

\* String.prototype.toLowerCase on the letters the day keys use.
UpperChars == <<"A", "D", "E", "G", "I", "J", "K", "M", "N", "O", "R", "S", "T", "V", "W", "Z">>

LowerChars == <<"a", "d", "e", "g", "i", "j", "k", "m", "n", "o", "r", "s", "t", "v", "w", "z">>

toLowerChar(c) ==
    IF \E k \in 1..Len(UpperChars) : UpperChars[k] = c
    THEN LowerChars[CHOOSE k \in 1..Len(UpperChars) : UpperChars[k] = c]
    ELSE c

toLowerCase(s) == [i \in 1..Len(s) |-> toLowerChar(s[i])]

(***************************************************************************)
(* Regular expressions of the source                                       *)
(***************************************************************************)
\* Length of the match of \d{1,2}:\d{2} that starts at index i of s, 0 when
\* there is none.  The two-digit hour is tried first (greedy); the one-digit
\* alternative needs ":" where the two-digit one needs a digit.
HMLenAt(s, i) ==
    IF /\ At(s, i) \in Digits /\ At(s, i + 1) \in Digits /\ At(s, i + 2) = ":"
       /\ At(s, i + 3) \in Digits /\ At(s, i + 4) \in Digits
    THEN 5
    ELSE IF /\ At(s, i) \in Digits /\ At(s, i + 1) = ":"
            /\ At(s, i + 2) \in Digits /\ At(s, i + 3) \in Digits
         THEN 4
         ELSE 0

\* The index after a maximal run of \s that starts at index i.
RECURSIVE SkipSpaces(_, _)
SkipSpaces(s, i) == IF IsSpace(At(s, i)) THEN SkipSpaces(s, i + 1) ELSE i

\* /(\d{1,2}:\d{2})\s*[ndash\-]\s*(\d{1,2}:\d{2})/ anchored at index i:
\* the two captured groups and the index after the match, or NoMatch.
RangeAt(s, i) ==
    LET l1 == HMLenAt(s, i)
        d  == SkipSpaces(s, i + l1)
        j  == SkipSpaces(s, d + 1)
        l2 == HMLenAt(s, j)
    IN  IF l1 > 0 /\ IsDash(At(s, d)) /\ l2 > 0
        THEN [ok |-> TRUE, g1 |-> SubSeq(s, i, i + l1 - 1),
              g2 |-> SubSeq(s, j, j + l2 - 1), from |-> i, to |-> j + l2]
        ELSE NoMatch

\* The leftmost match of the range pattern at index i or later.
RECURSIVE RangeFrom(_, _)
RangeFrom(s, i) ==
    IF i > Len(s) THEN NoMatch
    ELSE LET r == RangeAt(s, i) IN IF r.ok THEN r ELSE RangeFrom(s, i + 1)

\* String.match with the range pattern: the leftmost match, or NoMatch.
MatchRange(s) == RangeFrom(s, 1)

\* The leftmost match of /(\d{1,2}:\d{2})/ at index i or later.
RECURSIVE HMFrom(_, _)
HMFrom(s, i) ==
    IF i > Len(s) THEN NoMatch
    ELSE LET l == HMLenAt(s, i)
         IN  IF l > 0
             THEN [ok |-> TRUE, g1 |-> SubSeq(s, i, i + l - 1), from |-> i, to |-> i + l]
             ELSE HMFrom(s, i + 1)

\* String.match with /(\d{1,2}:\d{2})/: the leftmost match, or NoMatch.
MatchHM(s) == HMFrom(s, 1)

\* String.match with /\d{1,2}:\d{2}(?:\s*[-ndash]\s*\d{1,2}:\d{2})?/ followed
\* by `|| ['']` and `[0]`: the matched text, '' when nothing matches.  The
\* optional group is greedy: the range is taken where the start time is.
MatchTimeText(s) ==
    LET m == MatchHM(s)
        r == RangeAt(s, m.from)
    IN  IF ~m.ok THEN <<>>
        ELSE IF r.ok THEN SubSeq(s, m.from, r.to - 1)
        ELSE m.g1

\* parseInt(digits, 10) of a non-empty run of decimal digits.
RECURSIVE parseInt(_)
parseInt(ds) ==
    IF ds = <<>> THEN 0
    ELSE 10 * parseInt(SubSeq(ds, 1, Len(ds) - 1)) + DigitVal(ds[Len(ds)])

\* The first index at which pat occurs in s, 0 when it does not.
IndexOf(s, pat) ==
    LET hits == {i \in 1..(Len(s) - Len(pat) + 1) : SubSeq(s, i, i + Len(pat) - 1) = pat}
    IN  IF hits = {} THEN 0 ELSE CHOOSE i \in hits : \A k \in hits : i <= k

\* String.replace(pat, ''): the first occurrence of the string pat removed.
replaceFirst(s, pat) ==
    LET i == IndexOf(s, pat)
    IN  IF i = 0 THEN s ELSE SubSeq(s, 1, i - 1) \o SubSeq(s, i + Len(pat), Len(s))

(***************************************************************************)
(* Small helpers: fmt and escapeHtml                                       *)
(***************************************************************************)
MinutesPerDay == 24 * 60

\* The % of JavaScript: the remainder has the sign of the dividend.
JsRem(a, b) == IF a >= 0 THEN a % b ELSE 0 - ((0 - a) % b)

\* String(n) of a natural number.
RECURSIVE NatToString(_)
NatToString(n) ==
    IF n < 10 THEN <<DigitChars[n + 1]>>
    ELSE NatToString(n \div 10) \o <<DigitChars[(n % 10) + 1]>>

\* String(n) of an integer (String(-0) is "0").
String(n) == IF n < 0 THEN <<"-">> \o NatToString(0 - n) ELSE NatToString(n)

\* String.prototype.padStart(2, '0')
padStart2(s) == IF Len(s) < 2 THEN [i \in 1..(2 - Len(s)) |-> "0"] \o s ELSE s

\* fmt(mins), mins a nullable number.  Math.floor(mins/60) is \div, which
\* rounds towards minus infinity.
fmt(mins) ==
    IF mins = null THEN <<>>
    ELSE LET m1 == JsRem(mins[1] + MinutesPerDay, MinutesPerDay)
             h  == m1 \div 60
             m  == JsRem(m1, 60)
         IN  padStart2(String(h)) \o <<":">> \o padStart2(String(m))

\* The replacement table of escapeHtml without its entry for the ampersand.
escapeCharKeepsAmp(c) ==
    CASE c = "<"  -> <<"&", "l", "t", ";">>
      [] c = ">"  -> <<"&", "g", "t", ";">>
      [] c = "\"" -> <<"&", "q", "u", "o", "t", ";">>
      [] c = "'"  -> <<"&", "#", "3", "9", ";">>
      [] OTHER    -> <<c>>

escapeChar(c) ==
    CASE c = "&"  -> <<"&", "a", "m", "p", ";">>
      [] c = "<"  -> <<"&", "l", "t", ";">>
      [] c = ">"  -> <<"&", "g", "t", ";">>
      [] c = "\"" -> <<"&", "q", "u", "o", "t", ";">>
      [] c = "'"  -> <<"&", "#", "3", "9", ";">>
      [] OTHER    -> <<c>>

RECURSIVE escapeHtml(_)
escapeHtml(s) == IF s = <<>> THEN <<>> ELSE escapeChar(Head(s)) \o escapeHtml(Tail(s))

(***************************************************************************)
(* computeNowFromScheduleDOM                                               *)
(***************************************************************************)
Onbekend == <<"O", "n", "b", "e", "k", "e", "n", "d">>

OnbekendProgramma == Onbekend \o <<" ", "p", "r", "o", "g", "r", "a", "m", "m", "a">>

daysMap ==
    << <<"z", "o", "n", "d", "a", "g">>,
       <<"m", "a", "a", "n", "d", "a", "g">>,
       <<"d", "i", "n", "s", "d", "a", "g">>,
       <<"w", "o", "e", "n", "s", "d", "a", "g">>,
       <<"d", "o", "n", "d", "e", "r", "d", "a", "g">>,
       <<"v", "r", "i", "j", "d", "a", "g">>,
       <<"z", "a", "t", "e", "r", "d", "a", "g">> >>

\* The html of the "nothing now" result.  An html value is a record of the
\* template used and the texts interpolated into it.
CannedHtml == [tpl |-> "muted", title |-> <<>>, time |-> <<>>]

CannedOut == [html |-> CannedHtml, found |-> FALSE]

\* The local `found` while it is null.
NotFound == [found |-> FALSE]

\* NodeKey without the toLowerCase calls.
NodeKeyCaseSensitive(n) ==
    IF n.dataDay # null /\ n.dataDay[1] # <<>> THEN <<n.dataDay[1]>>
    ELSE IF n.id # <<>> THEN <<n.id>>
    ELSE null

\* Key of a .schedule-day node: data-day lowercased when it is a non-empty
\* string, else the id lowercased when non-empty, else null.
NodeKey(n) ==
    IF n.dataDay # null /\ n.dataDay[1] # <<>> THEN <<toLowerCase(n.dataDay[1])>>
    ELSE IF n.id # <<>> THEN <<toLowerCase(n.id)>>
    ELSE null

\* map[dayKey] after the forEach: the last node with that key wins; 0 when
\* the map has no such key.
ScheduleNodeIndex(nodes, dayKey) ==
    LET hits == {i \in 1..Len(nodes) : NodeKey(nodes[i]) = <<dayKey>>}
    IN  IF hits = {} THEN 0 ELSE CHOOSE i \in hits : \A k \in hits : k <= i

\* One element of programEls to {timeText, titleText}.
ExtractItem(el) ==
    LET rawText  == trim(el.textContent)
        timeText == IF el.timeEl # null THEN trim(el.timeEl[1]) ELSE MatchTimeText(rawText)
        titleText == IF el.titleEl # null THEN trim(el.titleEl[1])
                     ELSE trim(replaceFirst(rawText, timeText))
    IN  [timeText |-> timeText, titleText |-> titleText]

\* toMinutes(hm): null for an empty or unparseable text, else hours*60+minutes.
toMinutes(hm) ==
    IF hm = <<>> THEN null
    ELSE LET m == MatchHM(hm)
         IN  IF ~m.ok THEN null
             ELSE LET c == Len(m.g1) - 2
                  IN  <<parseInt(SubSeq(m.g1, 1, c - 1)) * 60
                        + parseInt(SubSeq(m.g1, c + 1, c + 2))>>

\* it.titleText || 'Onbekend'
TitleOrDefault(t) == IF t # <<>> THEN t ELSE Onbekend

\* What the range loop reads of an item: whether timeText matches the range
\* pattern, and then s and e (nullable numbers).
ItemRange(it) ==
    LET range == MatchRange(it.timeText)
    IN  IF range.ok
        THEN [ok |-> TRUE, s |-> toMinutes(range.g1), e |-> toMinutes(range.g2)]
        ELSE [ok |-> FALSE, s |-> null, e |-> null]

\* What the fallback reads of an item: m ? toMinutes(m[1]) : null
ItemStart(it) ==
    LET m == MatchHM(it.timeText)
    IN  IF m.ok THEN toMinutes(m.g1) ELSE null

(***************************************************************************)
(* Inputs: the documents and clocks the specifications range over          *)
(***************************************************************************)
\* The longest list of program elements in a day-section.
MaxItems == 3

\* The most .schedule-day nodes in a document of the day-selection runs.
MaxSections == 2

\* fmt is applied to every integer of -MaxFmtArg .. MaxFmtArg.
MaxFmtArg == 3000

\* The most calls of loadCurrentProgramFromPrograma in a run of the loader.
MaxCalls == 3

\* The longest title of the escaping runs.
MaxTitleLen == 3

\* <time>T</time><span class="program-title">Ti</span> inside one element.
Structured(timeText, titleText) ==
    [timeEl |-> <<timeText>>, titleEl |-> <<titleText>>,
     textContent |-> timeText \o <<"\n", " ">> \o titleText]

\* An element with text only, such as <li> T Ti </li>.
Plain(text) == [timeEl |-> null, titleEl |-> null, textContent |-> text]

\* An element with a <time> child and no .program-title child.
TimeOnly(timeText, rest) ==
    [timeEl |-> <<timeText>>, titleEl |-> null, textContent |-> timeText \o rest]

Ochtendshow == <<"O", "c", "h", "t", "e", "n", "d", "s", "h", "o", "w">>

Muziek == <<"M", "u", "z", "i", "e", "k">>

\* <time>08:00-09:00</time> Ochtendshow
ElOchtend ==
    Structured(<<"0", "8", ":", "0", "0", "-", "0", "9", ":", "0", "0">>, Ochtendshow)

\* <li> 09:00-10:30 Muziek</li>
ElMuziek ==
    Plain(<<" ", "0", "9", ":", "0", "0", "-", "1", "0", ":", "3", "0", " ">> \o Muziek)

\* 23:00 (en dash) 1:00, a range that crosses midnight
ElNacht ==
    Structured(<<"2", "3", ":", "0", "0", " ", "ndash", " ", "1", ":", "0", "0">>,
               <<"N", "a", "c", "h", "t">>)

\* 22:00-00:00, a range that ends at midnight
ElLaat ==
    Structured(<<"2", "2", ":", "0", "0", "-", "0", "0", ":", "0", "0">>,
               <<"L", "a", "a", "t">>)

\* 23:00-24:00, midnight written as hour 24
ElSlot ==
    Structured(<<"2", "3", ":", "0", "0", "-", "2", "4", ":", "0", "0">>,
               <<"S", "l", "o", "t">>)

\* 00:00-01:00 with no title text
ElVroeg == TimeOnly(<<"0", "0", ":", "0", "0", "-", "0", "1", ":", "0", "0">>, <<>>)

\* Point-form entries 09:00, 8:00 and 10:00
ElP9 == Structured(<<"0", "9", ":", "0", "0">>, <<"P", "9">>)

ElP8 == Plain(<<"8", ":", "0", "0", " ", "P", "8">>)

ElP10 == Structured(<<"1", "0", ":", "0", "0">>, <<"P", "1", "0">>)

\* A time text no pattern accepts
ElStraks == Structured(<<"s", "t", "r", "a", "k", "s">>, <<"X">>)

ProgramEls ==
    {ElOchtend, ElMuziek, ElNacht, ElLaat, ElSlot, ElVroeg, ElP9, ElP8, ElP10, ElStraks}

RECURSIVE SeqsUpTo(_, _)
SeqsUpTo(S, n) ==
    IF n = 0 THEN {<<>>}
    ELSE LET shorter == SeqsUpTo(S, n - 1)
         IN  shorter \cup {Append(q, x) : q \in {r \in shorter : Len(r) = n - 1}, x \in S}

\* Titles of the escaping runs: every string of 1 to MaxTitleLen characters
\* over the five characters escapeHtml replaces, a letter and a semicolon,
\* the title <script>, and the title &lt; (a character reference as text).
TitleChars == {"&", "<", ">", "\"", "'", "a", ";"}

ScriptTitle == <<"<", "s", "c", "r", "i", "p", "t", ">">>

AmpLtTitle == <<"&", "l", "t", ";">>

EscapeTitles == (SeqsUpTo(TitleChars, MaxTitleLen) \ {<<>>}) \cup {ScriptTitle, AmpLtTitle}

Woensdag == <<"w", "o", "e", "n", "s", "d", "a", "g">>

\* Attribute values of the .schedule-day nodes of the day-selection runs:
\* data-day absent, empty, capitalised, or a prefix of the day name; id empty,
\* today's name, or another day's name in capitals.
DataDays ==
    {null, <<<<>>>>, << <<"W", "o", "e", "n", "s", "d", "a", "g">> >>,
     << <<"w", "o", "e", "n", "s">> >>}

Ids == {<<>>, Woensdag, <<"Z", "O", "N", "D", "A", "G">>}

DaySections ==
    [dataDay : DataDays, id : Ids, els : {<<ElP8>>, <<ElP9>>}]

\* Documents of the day-selection runs: up to MaxSections nodes.
DayDocs == SeqsUpTo(DaySections, MaxSections)

\* Documents the loader runs fetch or find in the page.
DocA == << [dataDay |-> null, id |-> Woensdag, els |-> <<ElOchtend, ElMuziek>>] >>

DocB == << [dataDay |-> null, id |-> Woensdag, els |-> <<ElP8>>] >>

DocZ == << [dataDay |-> null, id |-> <<"Z", "O", "N", "D", "A", "G">>, els |-> <<ElP9>>] >>

\* Bodies of programma.html: no .schedule-day node at all, or a schedule.
RemoteDocs == {<<>>, DocA, DocB, DocZ}

\* Documents of the matching runs: one woensdag section (keyed by id) with
\* up to MaxItems program elements.
MatchDocs ==
    { << [dataDay |-> null, id |-> Woensdag, els |-> els] >> : els \in SeqsUpTo(ProgramEls, MaxItems) }

\* Minutes of the day the clock is read at: the first and last minute of the
\* day, the boundaries of the intervals of ProgramEls with the minute before
\* each, and 09:15 and 09:30.
ClockMinutes ==
    {0, 59, 60, 479, 480, 539, 540, 555, 570, 629, 630, 1319, 1320, 1379, 1380, 1439}

Wednesday == 3

(***************************************************************************)
(* ExtractItem, ItemRange and ItemStart tabulated over the elements and    *)
(* items of the documents above: the same values, computed once.           *)
(***************************************************************************)
ExtractTable == [el \in ProgramEls |-> ExtractItem(el)]

ExtractItemOf(el) == ExtractTable[el]

KnownItems == {ExtractTable[el] : el \in ProgramEls}

RangeTable == [it \in KnownItems |-> ItemRange(it)]

ItemRangeOf(it) == RangeTable[it]

StartTable == [it \in KnownItems |-> ItemStart(it)]

ItemStartOf(it) == StartTable[it]

(***************************************************************************)
(* computeNowFromScheduleDOM: selection, matching and output               *)
(***************************************************************************)
\* programEls.map(...).filter(i => i.timeText || i.titleText)
ExtractItems(els) ==
    SelectSeq([i \in 1..Len(els) |-> ExtractItemOf(els[i])],
              LAMBDA it : it.timeText # <<>> \/ it.titleText # <<>>)

\* RangeHolds with the end of a non-wrapping range taken as inclusive.
RangeHoldsInclusiveEnd(s, e, nowMinutes) ==
    IF s <= e THEN nowMinutes >= s /\ nowMinutes <= e
    ELSE nowMinutes >= s \/ nowMinutes < e

\* RangeHolds with the two halves of a wrapping range joined by "and".
RangeHoldsWrapAnd(s, e, nowMinutes) ==
    IF s <= e THEN nowMinutes >= s /\ nowMinutes < e
    ELSE nowMinutes >= s /\ nowMinutes < e

\* Whether the range s..e (both numbers) holds nowMinutes: lines 388-393.
RangeHolds(s, e, nowMinutes) ==
    IF s <= e THEN nowMinutes >= s /\ nowMinutes < e
    ELSE nowMinutes >= s \/ nowMinutes < e

\* Whether item it is matched by the body of the range loop.
RangeItemMatches(it, nowMinutes) ==
    LET r == ItemRangeOf(it)
    IN  /\ r.ok
        /\ r.s # null
        /\ r.e # null
        /\ RangeHolds(r.s[1], r.e[1], nowMinutes)

\* RangeScan without the break: the last matching item wins.
RangeScanNoBreak(items, i, nowMinutes) ==
    LET hits == {k \in i..Len(items) : RangeItemMatches(items[k], nowMinutes)}
    IN  IF hits = {} THEN 0 ELSE CHOOSE k \in hits : \A h \in hits : h <= k

\* The index of the item the range loop breaks at, 0 when it runs to the end.
RECURSIVE RangeScan(_, _, _)
RangeScan(items, i, nowMinutes) ==
    IF i > Len(items) THEN 0
    ELSE IF RangeItemMatches(items[i], nowMinutes) THEN i
    ELSE RangeScan(items, i + 1, nowMinutes)

\* The range loop: `found` after it, the first matching item in list order.
RangePass(items, nowMinutes) ==
    Bind(RangeScan(items, 1, nowMinutes), LAMBDA i :
        IF i = 0 THEN NotFound
        ELSE [found |-> TRUE, title |-> TitleOrDefault(items[i].titleText),
              start |-> ItemRangeOf(items[i]).s[1], end |-> ItemRangeOf(items[i]).e])

\* items.map(...).filter(i => i.start !== null)
Starts(items) ==
    SelectSeq([i \in 1..Len(items) |->
                  [title |-> TitleOrDefault(items[i].titleText),
                   start |-> ItemStartOf(items[i])]],
              LAMBDA p : p.start # null)

\* Array.prototype.sort((a,b) => a.start - b.start): stable, ascending.
RECURSIVE Insert(_, _)
Insert(sorted, p) ==
    IF sorted = <<>> THEN <<p>>
    ELSE IF sorted[Len(sorted)].start[1] <= p.start[1] THEN Append(sorted, p)
    ELSE Append(Insert(SubSeq(sorted, 1, Len(sorted) - 1), p), sorted[Len(sorted)])

\* SortByStart with the sort left out: document order.
SortByStartUnsorted(ps) == ps

RECURSIVE SortByStart(_)
SortByStart(ps) ==
    IF ps = <<>> THEN <<>>
    ELSE Insert(SortByStart(SubSeq(ps, 1, Len(ps) - 1)), ps[Len(ps)])

\* ScanLen with cand initialised to the first entry instead of null.
ScanLenFirstAsDefault(starts, nowMinutes) ==
    LET n == Cardinality({i \in 1..Len(starts) :
                 \A k \in 1..i : starts[k].start[1] <= nowMinutes})
    IN  IF n = 0 /\ starts # <<>> THEN 1 ELSE n

\* for (const p of starts) { if (p.start <= nowMinutes) cand = p; else break; }
\* The number of leading entries with start <= nowMinutes; cand is the last
\* of them, null when there is none.
RECURSIVE ScanLen(_, _)
ScanLen(starts, nowMinutes) ==
    IF starts # <<>> /\ Head(starts).start[1] <= nowMinutes
    THEN 1 + ScanLen(Tail(starts), nowMinutes)
    ELSE 0

\* The fallback block: `found` after it.
FallbackPass(items, nowMinutes) ==
    Bind(SortByStart(Starts(items)), LAMBDA starts :
        Bind(ScanLen(starts, nowMinutes), LAMBDA n :
            IF n = 0 THEN NotFound
            ELSE [found |-> TRUE, title |-> starts[n].title,
                  start |-> starts[n].start[1], end |-> null]))

\* `found` before the output is built: lines 380-410.
FindProgram(items, nowMinutes) ==
    Bind(RangePass(items, nowMinutes), LAMBDA r :
        IF r.found THEN r ELSE FallbackPass(items, nowMinutes))

\* JavaScript truthiness of a nullable number: null and 0 are falsy.
Truthy(num) == num # null /\ num[1] # 0

\* timeStr: found.start and found.end are tested for truthiness.
TimeStr(found) ==
    IF Truthy(<<found.start>>) /\ Truthy(found.end)
    THEN fmt(<<found.start>>) \o <<" ", "ndash", " ">> \o fmt(found.end)
    ELSE IF Truthy(<<found.start>>) THEN fmt(<<found.start>>) \o <<" ", "arrow">>
    ELSE <<>>

\* The html built for a found program.
BuildHtml(found) ==
    [tpl   |-> "now",
     title |-> escapeHtml(IF found.title # <<>> THEN found.title ELSE OnbekendProgramma),
     time  |-> TimeStr(found)]

\* The items of today's section; the local `found` of
\* computeNowFromScheduleDOM(nodes) at the given clock.
ProgramOf(nodes, day, nowMinutes) ==
    Bind(ScheduleNodeIndex(nodes, daysMap[day + 1]), LAMBDA k :
        IF k = 0 THEN NotFound
        ELSE Bind(ExtractItems(nodes[k].els), LAMBDA items :
                 FindProgram(items, nowMinutes)))

\* The object computeNowFromScheduleDOM returns for its local `found`.
OutOf(found) ==
    IF ~found.found THEN CannedOut
    ELSE [html |-> BuildHtml(found), found |-> TRUE]

(***************************************************************************)
(* State machine                                                           *)
(***************************************************************************)
InitialHtml == [tpl |-> "initial", title |-> <<>>, time |-> <<>>]

\* renderNowPlayingToTarget(html)
Rendered(html) == IF hasTarget THEN html ELSE target

InitResolver(docs) ==
    /\ doc \in docs
    /\ hasTarget = TRUE
    /\ target = InitialHtml
    /\ computed = FALSE
    /\ clockDay = 0
    /\ clockMin = 0
    /\ program = NotFound
    /\ out = CannedOut

InitFmt ==
    /\ fmtIn = null
    /\ fmtOut = <<>>

InitLoader ==
    /\ loaded = FALSE
    /\ timerOn = FALSE
    /\ calls = <<>>

\* A page without .carousel, #site-header and .day-tabs elements.
InitNoCarousel ==
    /\ slides = 0
    /\ index = 0
    /\ autoplay = FALSE
    /\ timer = null
    /\ live = {}
    /\ nextTimerId = 1
    /\ touching = FALSE
    /\ deltaX = 0
    /\ trackShift = 0
    /\ activeDot = 0
    /\ hover = FALSE
    /\ focus = FALSE

InitNoHeader ==
    /\ header = "absent"
    /\ scrollY = 0
    /\ scrollEvt = FALSE
    /\ ticking = FALSE
    /\ rafPending = 0

InitNoTabs ==
    /\ tabs = <<>>
    /\ hidden = <<>>
    /\ tabsReady = FALSE

InitNoWidgets == InitNoCarousel /\ InitNoHeader /\ InitNoTabs

\* loadCurrentProgramFromPrograma() on a page that has .schedule-day nodes:
\* computeNowFromScheduleDOM(localNodes) runs to completion in the call.  The
\* function keeps no state between calls, so a run holds one call.
LocalCall(days, minutes) ==
    /\ Len(doc) > 0
    /\ ~computed
    /\ \E d \in days, m \in minutes :
          \E found \in {ProgramOf(doc, d, m)} :
              \E res \in {OutOf(found)} :
                  /\ clockDay' = d
                  /\ clockMin' = m
                  /\ program' = found
                  /\ out' = res
                  /\ target' = Rendered(res.html)
    /\ computed' = TRUE
    /\ UNCHANGED <<doc, hasTarget, fmtVars, uiVars, loaderVars>>

MatchCall == LocalCall({Wednesday}, ClockMinutes)

InitMatch == InitResolver(MatchDocs) /\ InitFmt /\ InitLoader /\ InitNoWidgets

NextMatch == MatchCall

SpecMatch == InitMatch /\ [][NextMatch]_vars

\* Lines 418-434 of computeNowFromScheduleDOM, from a `found` that the two
\* passes set: the html is built, rendered and returned.  The title of
\* `found` is the titleText of an entry, any non-empty string; its start is
\* 08:00 and its end 09:00 (range pass) or null (fallback pass).
RenderFound ==
    /\ Len(doc) > 0
    /\ ~computed
    /\ \E t \in EscapeTitles, e \in {null, <<540>>} :
          \E found \in {[found |-> TRUE, title |-> t, start |-> 480, end |-> e]} :
              \E res \in {OutOf(found)} :
                  /\ program' = found
                  /\ out' = res
                  /\ target' = Rendered(res.html)
    /\ computed' = TRUE
    /\ UNCHANGED <<doc, hasTarget, clockDay, clockMin, fmtVars, uiVars, loaderVars>>

InitEscape == InitResolver({DocA}) /\ InitFmt /\ InitLoader /\ InitNoWidgets

NextEscape == RenderFound

SpecEscape == InitEscape /\ [][NextEscape]_vars

\* The day-selection runs: any weekday, one minute of the day.
DayCall == LocalCall(0..6, {570})

InitDay == InitResolver(DayDocs) /\ InitFmt /\ InitLoader /\ InitNoWidgets

NextDay == DayCall

SpecDay == InitDay /\ [][NextDay]_vars

(***************************************************************************)
(* loadCurrentProgramFromPrograma with its fetch, and its callers          *)
(***************************************************************************)
\* A call is a record: pc is where the async function stands ("awaitFetch"
\* at line 317, "awaitText" at line 319, "returned"), fetches counts its
\* fetch('programma.html') calls, writes its renders to the output target,
\* via is the path it returned by ("local", "remote", "catch", "none" while
\* pending), err is what the catch block caught and logged ("none" when
\* nothing was thrown), promise is the state of the promise it returned,
\* ret the value that promise resolved to, and done the call's place in the
\* order in which the calls returned (0 while pending).
PendingRet == [html |-> InitialHtml, found |-> FALSE]

\* if (localNodes.length)
UsesLocal(localNodes) == Len(localNodes) > 0

\* The calls that have returned.
ReturnedCalls == {c \in 1..Len(calls) : calls[c].pc = "returned"}

\* The call after `return computeNowFromScheduleDOM(nodes)` gave res.
Returned(call, res, path) ==
    [call EXCEPT !.pc = "returned", !.writes = @ + 1, !.via = path,
                 !.promise = "fulfilled", !.ret = res,
                 !.done = Cardinality(ReturnedCalls) + 1]

\* The catch block with a retry of the fetch in place of the fallback.
CaughtRetry(call, e) ==
    [call EXCEPT !.pc = "awaitFetch", !.fetches = @ + 1, !.err = e]

\* The catch block throwing what it caught again.
CaughtRethrow(call, e) ==
    [call EXCEPT !.pc = "returned", !.writes = @ + 1, !.via = "catch", !.err = e,
                 !.promise = "rejected", !.done = Cardinality(ReturnedCalls) + 1]

\* The call after the catch block: the canned html rendered and returned.
Caught(call, e) == [Returned(call, CannedOut, "catch") EXCEPT !.err = e]

\* The call at its first await: fetch('programma.html') issued.
Fetching ==
    [pc |-> "awaitFetch", fetches |-> 1, writes |-> 0, via |-> "none", err |-> "none",
     promise |-> "pending", ret |-> PendingRet, done |-> 0]

NotStarted ==
    [pc |-> "start", fetches |-> 0, writes |-> 0, via |-> "none", err |-> "none",
     promise |-> "pending", ret |-> PendingRet, done |-> 0]

\* Minutes of the day the loader runs read the clock at.
LoadMinutes == {30, 555}

\* computeNowFromScheduleDOM(nodes) as a step of call c, then its return.
ComputeStep(c, nodes, path, startedCalls) ==
    \E m \in LoadMinutes :
        \E found \in {ProgramOf(nodes, Wednesday, m)} :
            \E res \in {OutOf(found)} :
                /\ clockDay' = Wednesday
                /\ clockMin' = m
                /\ program' = found
                /\ out' = res
                /\ computed' = TRUE
                /\ target' = Rendered(res.html)
                /\ calls' = [startedCalls EXCEPT ![c] = Returned(@, res, path)]

\* The catch block returning the canned object without rendering it.
CatchStepNoRender(c, e) ==
    /\ calls' = [calls EXCEPT ![c] = Caught(@, e)]
    /\ UNCHANGED <<target, computed, clockDay, clockMin, program, out>>

\* The catch block leaving the target alone when a call started later has
\* already returned.
CatchStepUnlessNewer(c, e) ==
    /\ target' = IF \E d \in ReturnedCalls : d > c THEN target ELSE Rendered(CannedHtml)
    /\ calls' = [calls EXCEPT ![c] = Caught(@, e)]
    /\ UNCHANGED <<computed, clockDay, clockMin, program, out>>

\* The catch block as a step of call c.
CatchStep(c, e) ==
    /\ target' = Rendered(CannedHtml)
    /\ calls' = [calls EXCEPT ![c] = Caught(@, e)]
    /\ UNCHANGED <<computed, clockDay, clockMin, program, out>>

\* A call of loadCurrentProgramFromPrograma up to its first await or return.
StartCall ==
    LET c == Len(calls) + 1
    IN  IF UsesLocal(doc)
        THEN ComputeStep(c, doc, "local", Append(calls, NotStarted))
        ELSE /\ calls' = Append(calls, Fetching)
             /\ UNCHANGED <<target, computed, clockDay, clockMin, program, out>>

\* The DOMContentLoaded handler: with a #now-playing element, the first call
\* and the setInterval.
DomContentLoaded ==
    /\ ~loaded
    /\ loaded' = TRUE
    /\ IF hasTarget
       THEN StartCall /\ timerOn' = TRUE
       ELSE UNCHANGED <<target, computed, clockDay, clockMin, program, out, calls, timerOn>>
    /\ UNCHANGED <<doc, hasTarget, fmtVars, uiVars>>

\* The interval callback, every 30 seconds.
TimerTick ==
    /\ timerOn
    /\ Len(calls) < MaxCalls
    /\ StartCall
    /\ UNCHANGED <<doc, hasTarget, fmtVars, uiVars, loaded, timerOn>>

\* fetch(...) rejects (network error): the await throws into the catch.
FetchRejects ==
    \E c \in 1..Len(calls) :
        /\ calls[c].pc = "awaitFetch"
        /\ CatchStep(c, "network")
        /\ UNCHANGED <<doc, hasTarget, fmtVars, uiVars, loaded, timerOn>>

\* fetch(...) resolves with a response whose ok is false: line 318 throws.
FetchNotOk ==
    \E c \in 1..Len(calls) :
        /\ calls[c].pc = "awaitFetch"
        /\ CatchStep(c, "status")
        /\ UNCHANGED <<doc, hasTarget, fmtVars, uiVars, loaded, timerOn>>

\* fetch(...) resolves with an ok response: the call awaits resp.text().
FetchOk ==
    \E c \in 1..Len(calls) :
        /\ calls[c].pc = "awaitFetch"
        /\ calls' = [calls EXCEPT ![c].pc = "awaitText"]
        /\ UNCHANGED <<resolverVars, fmtVars, uiVars, loaded, timerOn>>

\* resp.text() rejects: the await throws into the catch.
TextRejects ==
    \E c \in 1..Len(calls) :
        /\ calls[c].pc = "awaitText"
        /\ CatchStep(c, "text")
        /\ UNCHANGED <<doc, hasTarget, fmtVars, uiVars, loaded, timerOn>>

\* resp.text() resolves: the text is parsed and its .schedule-day nodes are
\* computed from, or their absence is thrown into the catch.
TextArrives ==
    \E c \in 1..Len(calls), remoteNodes \in RemoteDocs :
        /\ calls[c].pc = "awaitText"
        /\ IF Len(remoteNodes) = 0
           THEN CatchStep(c, "nonodes")
           ELSE ComputeStep(c, remoteNodes, "remote", calls)
        /\ UNCHANGED <<doc, hasTarget, fmtVars, uiVars, loaded, timerOn>>

InitLoad ==
    /\ doc \in {<<>>, DocA, DocZ}
    /\ hasTarget \in BOOLEAN
    /\ target = InitialHtml
    /\ computed = FALSE
    /\ clockDay = 0
    /\ clockMin = 0
    /\ program = NotFound
    /\ out = CannedOut
    /\ InitFmt
    /\ InitLoader
    /\ InitNoWidgets

NextLoad ==
    \/ DomContentLoaded
    \/ TimerTick
    \/ FetchRejects
    \/ FetchNotOk
    \/ FetchOk
    \/ TextRejects
    \/ TextArrives

SpecLoad == InitLoad /\ [][NextLoad]_vars

\* fmt(mins) with a number.  fmt keeps no state between calls, so a run
\* holds one such call.
FmtCall ==
    /\ fmtIn = null
    /\ \E n \in (0 - MaxFmtArg)..MaxFmtArg :
          /\ fmtIn' = <<n>>
          /\ fmtOut' = fmt(<<n>>)
    /\ UNCHANGED <<resolverVars, loaderVars, uiVars>>

\* fmt(null)
FmtNull ==
    /\ fmtIn' = null
    /\ fmtOut' = fmt(null)
    /\ UNCHANGED <<resolverVars, loaderVars, uiVars>>

InitFmtOnly == InitResolver({<<>>}) /\ InitFmt /\ InitLoader /\ InitNoWidgets

NextFmt == FmtCall \/ FmtNull

SpecFmt == InitFmtOnly /\ [][NextFmt]_vars

(***************************************************************************)
(* initCarousel: one .carousel element that has a .carousel-track          *)
(***************************************************************************)
\* The most children of the track, and the most images of data-images.
MaxSlides == 3

\* The most setInterval calls of a carousel in a run.
MaxIntervals == 5

\* if (Math.abs(deltaX) > 60)
SwipeThreshold == 60

\* Values of e.touches[0].clientX - startX in a touchmove.
SwipeDeltas == {0 - 61, 0 - 60, 60, 61}

\* track.children.length after the slides are built from data-images (when
\* the track is empty) and the placeholder is added (when it still is).
SlideCount(children, imgs) ==
    LET built == IF imgs > 0 /\ children = 0 THEN imgs ELSE children
    IN  IF built = 0 THEN 1 ELSE built

\* goTo without the second remainder: i % n.
WrapRemainderOnly(i, n) == JsRem(i, n)

\* ((i % n) + n) % n
Wrap(i, n) == JsRem(JsRem(i, n) + n, n)

\* The timer state the autoplay functions work on: `timer`, the live
\* intervals and the id of the next interval.
TimerState == [timer |-> timer, live |-> live, next |-> nextTimerId]

\* stopAutoplay that drops the id without clearInterval.
StopAutoplayForgets(t) == [t EXCEPT !.timer = null]

\* stopAutoplay(): if (timer) { clearInterval(timer); timer = null; }
StopAutoplay(t) ==
    IF Truthy(t.timer) THEN [t EXCEPT !.live = @ \ {t.timer[1]}, !.timer = null] ELSE t

\* startAutoplay(): if (!autoplay) return; stopAutoplay(); timer = setInterval(next, interval);
StartAutoplay(t) ==
    IF ~autoplay THEN t
    ELSE Bind(StopAutoplay(t), LAMBDA s :
             [timer |-> <<s.next>>, live |-> s.live \cup {s.next}, next |-> s.next + 1])

\* resetAutoplay(): stopAutoplay(); startAutoplay();
ResetAutoplay(t) == Bind(StopAutoplay(t), LAMBDA s : StartAutoplay(s))

SetTimerState(t) ==
    /\ timer' = t.timer
    /\ live' = t.live
    /\ nextTimerId' = t.next

\* Whether k more setInterval calls stay within MaxIntervals.
CanSetInterval(k) == ~autoplay \/ nextTimerId + k - 1 <= MaxIntervals

\* refresh(): the transform and the active dot follow `index`.
Refresh(i) ==
    /\ trackShift' = 0
    /\ activeDot' = i

\* goTo(i) followed by the resetAutoplay calls of the handler it runs in
\* (one in goTo itself, `more` after it).
GoToThen(i, more) ==
    /\ index' = Wrap(i, slides)
    /\ Refresh(Wrap(i, slides))
    /\ SetTimerState(IF more = 0 THEN ResetAutoplay(TimerState)
                     ELSE ResetAutoplay(ResetAutoplay(TimerState)))

GoTo(i) == GoToThen(i, 0)

CarouselRest == <<resolverVars, fmtVars, loaderVars, headerVars, tabVars>>

\* click on .carousel-btn.next
NextClick ==
    /\ CanSetInterval(1)
    /\ GoTo(index + 1)
    /\ UNCHANGED <<slides, autoplay, touching, deltaX, hover, focus, CarouselRest>>

\* click on .carousel-btn.prev
PrevClick ==
    /\ CanSetInterval(1)
    /\ GoTo(index - 1)
    /\ UNCHANGED <<slides, autoplay, touching, deltaX, hover, focus, CarouselRest>>

\* click on the dot of slide i
DotClick ==
    /\ CanSetInterval(1)
    /\ \E i \in 0..(slides - 1) : GoTo(i)
    /\ UNCHANGED <<slides, autoplay, touching, deltaX, hover, focus, CarouselRest>>

\* keydown on the carousel with ArrowLeft or ArrowRight
KeyDown ==
    /\ CanSetInterval(1)
    /\ \E key \in {"ArrowLeft", "ArrowRight"} :
          IF key = "ArrowLeft" THEN GoTo(index - 1) ELSE GoTo(index + 1)
    /\ UNCHANGED <<slides, autoplay, touching, deltaX, hover, focus, CarouselRest>>

\* A live interval fires: next().
AutoplayTick ==
    /\ CanSetInterval(1)
    /\ live # {}
    /\ GoTo(index + 1)
    /\ UNCHANGED <<slides, autoplay, touching, deltaX, hover, focus, CarouselRest>>

\* The timeout of the resize handler fires: refresh().
ResizeRefresh ==
    /\ Refresh(index)
    /\ UNCHANGED <<slides, index, autoplay, timer, live, nextTimerId, touching, deltaX,
                   hover, focus, CarouselRest>>

\* touchstart on the track
TouchStart ==
    /\ ~touching
    /\ touching' = TRUE
    /\ deltaX' = 0
    /\ SetTimerState(StopAutoplay(TimerState))
    /\ UNCHANGED <<slides, index, autoplay, trackShift, activeDot, hover, focus, CarouselRest>>

\* touchmove on the track
TouchMove ==
    /\ touching
    /\ \E d \in SwipeDeltas :
          /\ deltaX' = d
          /\ trackShift' = d
    /\ UNCHANGED <<slides, index, autoplay, timer, live, nextTimerId, touching, activeDot,
                   hover, focus, CarouselRest>>

\* touchend on the track
TouchEnd ==
    /\ touching
    /\ touching' = FALSE
    /\ IF deltaX > SwipeThreshold \/ 0 - deltaX > SwipeThreshold
       THEN /\ CanSetInterval(2)
            /\ GoToThen(IF deltaX < 0 THEN index + 1 ELSE index - 1, 1)
       ELSE /\ CanSetInterval(1)
            /\ Refresh(index)
            /\ SetTimerState(ResetAutoplay(TimerState))
            /\ UNCHANGED index
    /\ UNCHANGED <<slides, autoplay, deltaX, hover, focus, CarouselRest>>

\* mouseenter on the carousel: stopAutoplay
MouseEnter ==
    /\ ~hover
    /\ hover' = TRUE
    /\ SetTimerState(StopAutoplay(TimerState))
    /\ UNCHANGED <<slides, index, autoplay, touching, deltaX, trackShift, activeDot, focus,
                   CarouselRest>>

\* mouseleave: resetAutoplay
MouseLeave ==
    /\ hover
    /\ CanSetInterval(1)
    /\ hover' = FALSE
    /\ SetTimerState(ResetAutoplay(TimerState))
    /\ UNCHANGED <<slides, index, autoplay, touching, deltaX, trackShift, activeDot, focus,
                   CarouselRest>>

\* focusin on the carousel: stopAutoplay
FocusIn ==
    /\ ~focus
    /\ focus' = TRUE
    /\ SetTimerState(StopAutoplay(TimerState))
    /\ UNCHANGED <<slides, index, autoplay, touching, deltaX, trackShift, activeDot, hover,
                   CarouselRest>>

\* focusout: resetAutoplay
FocusOut ==
    /\ focus
    /\ CanSetInterval(1)
    /\ focus' = FALSE
    /\ SetTimerState(ResetAutoplay(TimerState))
    /\ UNCHANGED <<slides, index, autoplay, touching, deltaX, trackShift, activeDot, hover,
                   CarouselRest>>

\* The carousel when initCarousel(root) has returned: the slides built,
\* createDots(), refresh() and startAutoplay() done.
InitCarousel ==
    /\ \E children \in 0..MaxSlides, imgs \in 0..MaxSlides :
          slides = SlideCount(children, imgs)
    /\ index = 0
    /\ autoplay \in BOOLEAN
    /\ \E t \in {StartAutoplay([timer |-> null, live |-> {}, next |-> 1])} :
          /\ timer = t.timer
          /\ live = t.live
          /\ nextTimerId = t.next
    /\ touching = FALSE
    /\ deltaX = 0
    /\ trackShift = 0
    /\ activeDot = 0
    /\ hover = FALSE
    /\ focus = FALSE

InitCarouselPage ==
    /\ InitResolver({<<>>})
    /\ InitFmt
    /\ InitLoader
    /\ InitCarousel
    /\ InitNoHeader
    /\ InitNoTabs

NextCarousel ==
    \/ NextClick
    \/ PrevClick
    \/ DotClick
    \/ KeyDown
    \/ AutoplayTick
    \/ ResizeRefresh
    \/ TouchStart
    \/ TouchMove
    \/ TouchEnd
    \/ MouseEnter
    \/ MouseLeave
    \/ FocusIn
    \/ FocusOut

SpecCarousel == InitCarouselPage /\ [][NextCarousel]_vars

(***************************************************************************)
(* initHeaderSticky                                                        *)
(***************************************************************************)
\* const TH = 60
TH == 60

\* Scroll positions are 0 .. MaxScrollY.
MaxScrollY == 64

\* header.classList.toggle('scrolled', y > TH)
HeaderClass(y) == IF y > TH THEN "scrolled" ELSE "plain"

HeaderRest == <<resolverVars, fmtVars, loaderVars, carouselVars, tabVars>>

\* The window is scrolled to y; a scroll event is queued for dispatch.
ScrollTo ==
    /\ \E y \in 0..MaxScrollY : scrollY' = y
    /\ scrollEvt' = TRUE
    /\ UNCHANGED <<header, ticking, rafPending, HeaderRest>>

\* The scroll listener requesting a frame whether or not one is pending.
OnScrollUnthrottled ==
    /\ ticking' = TRUE
    /\ rafPending' = rafPending + 1

\* if (!ticking) { ticking = true; requestAnimationFrame(update); }
OnScroll ==
    IF ~ticking
    THEN /\ ticking' = TRUE
         /\ rafPending' = rafPending + 1
    ELSE UNCHANGED <<ticking, rafPending>>

\* The queued scroll event is dispatched to the listener of line 101.
ScrollEvent ==
    /\ header # "absent"
    /\ scrollEvt
    /\ scrollEvt' = FALSE
    /\ OnScroll
    /\ UNCHANGED <<header, scrollY, HeaderRest>>

\* An animation frame runs a requested update().
AnimationFrame ==
    /\ rafPending > 0
    /\ rafPending' = rafPending - 1
    /\ header' = HeaderClass(scrollY)
    /\ ticking' = FALSE
    /\ UNCHANGED <<scrollY, scrollEvt, HeaderRest>>

\* The header when initHeaderSticky() has returned on a page with a
\* #site-header, loaded at any scroll position: update() has run once.
InitHeaderSticky ==
    /\ scrollY \in 0..MaxScrollY
    /\ header = HeaderClass(scrollY)
    /\ scrollEvt = FALSE
    /\ ticking = FALSE
    /\ rafPending = 0

InitHeaderPage ==
    /\ InitResolver({<<>>})
    /\ InitFmt
    /\ InitLoader
    /\ InitNoCarousel
    /\ InitHeaderSticky
    /\ InitNoTabs

NextHeader == ScrollTo \/ ScrollEvent \/ AnimationFrame

SpecHeader == InitHeaderPage /\ [][NextHeader]_vars

(***************************************************************************)
(* initDayTabs: one .day-tabs container                                    *)
(***************************************************************************)
\* The most .day-tab buttons in the container.
MaxTabs == 2

All == <<"a", "l", "l">>

\* data-day of a tab: absent, 'all', 'woensdag', 'Woensdag' or 'zondag'.
TabDayValues ==
    {null, <<All>>, <<Woensdag>>, << <<"W", "o", "e", "n", "s", "d", "a", "g">> >>,
     << <<"z", "o", "n", "d", "a", "g">> >>}

\* The tabs as the markup has them.
TabMarkups == SeqsUpTo([day : TabDayValues, pressed : BOOLEAN], MaxTabs) \ {<<>>}

\* .schedule-day nodes of the day-tab runs: keyed by a capitalised data-day,
\* by an id in capitals, by an id under an empty data-day, or not at all.
TabSections ==
    { [dataDay |-> << <<"W", "o", "e", "n", "s", "d", "a", "g">> >>, id |-> <<>>, els |-> <<ElP9>>],
      [dataDay |-> null, id |-> <<"Z", "O", "N", "D", "A", "G">>, els |-> <<ElP9>>],
      [dataDay |-> <<<<>>>>, id |-> Woensdag, els |-> <<ElP9>>],
      [dataDay |-> null, id |-> <<>>, els |-> <<ElP9>>] }

TabDocs == SeqsUpTo(TabSections, 2) \ {<<>>}

\* (t.dataset.day || 'all').toLowerCase()
TabDay(t) == toLowerCase(IF t.day # null /\ t.day[1] # <<>> THEN t.day[1] ELSE All)

\* (sd.dataset.day || sd.id || '').toLowerCase()
SectionKey(sd) ==
    toLowerCase(IF sd.dataDay # null /\ sd.dataDay[1] # <<>> THEN sd.dataDay[1] ELSE sd.id)

\* show(day): which sections have class hidden afterwards.
Show(day) ==
    IF day = All THEN [i \in 1..Len(doc) |-> FALSE]
    ELSE [i \in 1..Len(doc) |-> SectionKey(doc[i]) # day]

\* tabs.forEach(x => x.setAttribute('aria-pressed','false')); t.setAttribute('aria-pressed','true')
PressOnly(ts, k) == [i \in 1..Len(ts) |-> [ts[i] EXCEPT !.pressed = (i = k)]]

\* tabs.find(t => t.getAttribute('aria-pressed') === 'true') || tabs[0]
ActiveTab(ts) ==
    IF \E i \in 1..Len(ts) : ts[i].pressed
    THEN CHOOSE i \in 1..Len(ts) : ts[i].pressed /\ \A j \in 1..(i - 1) : ~ts[j].pressed
    ELSE IF Len(ts) > 0 THEN 1 ELSE 0

TabRest == <<hasTarget, target, computed, clockDay, clockMin, program, out,
             fmtVars, loaderVars, carouselVars, headerVars>>

\* click on tab k (or Enter / space on it, which clicks it)
TabClick ==
    /\ tabsReady
    /\ Len(doc) > 0
    /\ \E k \in 1..Len(tabs) :
          /\ tabs' = PressOnly(tabs, k)
          /\ hidden' = Show(TabDay(tabs[k]))
    /\ UNCHANGED <<doc, tabsReady, TabRest>>

\* initDayTabs(container), called by the DOMContentLoaded handler: without
\* .schedule-day nodes it returns at line 269; else the listeners are added
\* and the initial active tab, when there is a tab, is pressed and shown.
InitDayTabs ==
    /\ ~tabsReady
    /\ tabsReady' = TRUE
    /\ IF Len(doc) = 0 \/ ActiveTab(tabs) = 0
       THEN UNCHANGED <<tabs, hidden>>
       ELSE /\ tabs' = [tabs EXCEPT ![ActiveTab(tabs)].pressed = TRUE]
            /\ hidden' = Show(TabDay(tabs[ActiveTab(tabs)]))
    /\ UNCHANGED <<doc, TabRest>>

\* The page as its markup has it: the tabs with their aria-pressed
\* attributes and the sections with or without class hidden.
InitTabsPage ==
    /\ InitResolver(TabDocs)
    /\ InitFmt
    /\ InitLoader
    /\ InitNoCarousel
    /\ InitNoHeader
    /\ tabs \in TabMarkups
    /\ hidden \in [1..Len(doc) -> BOOLEAN]
    /\ tabsReady = FALSE

NextTabs == InitDayTabs \/ TabClick

SpecTabs == InitTabsPage /\ [][NextTabs]_vars

(***************************************************************************)
(* Properties of the range pass and the fallback pass (SpecMatch)          *)
(***************************************************************************)
\* The items of the section the matching runs resolve.
TodayItems == ExtractItems(doc[1].els)

\* Membership of a minute in the interval a range entry declares, as the
\* specification words it.
InInterval(s, e, now) ==
    IF s <= e THEN s <= now /\ now < e
    ELSE now \in s..(MinutesPerDay - 1) \/ now \in 0..(e - 1)

IsRangeEntry(it) == ItemRangeOf(it).ok

EntryS(it) == ItemRangeOf(it).s[1]

EntryE(it) == ItemRangeOf(it).e[1]

\* A range entry whose declared interval holds the clock's minute.
Contains(it, now) == IsRangeEntry(it) /\ InInterval(EntryS(it), EntryE(it), now)

\* The title a resolved program carries for an entry: the entry's title, the
\* placeholder of section 4.3 step 3 when the entry has none.
EntryTitle(it) == IF it.titleText = <<>> THEN Onbekend ELSE it.titleText

\* The resolved program of a range entry.
RangeProgram(it) ==
    [found |-> TRUE, title |-> EntryTitle(it), start |-> EntryS(it), end |-> <<EntryE(it)>>]

\* No entry before index i is a range entry that holds the clock's minute.
NoneBefore(i) == \A j \in 1..(i - 1) : ~Contains(TodayItems[j], clockMin)

MuziekProgram == [found |-> TRUE, title |-> Muziek, start |-> 540, end |-> <<630>>]

\* C1: a range entry with s <= e (no earlier entry holding the minute) is the
\* resolved program, with its title, s and e, exactly when s <= nowMinutes < e;
\* a resolved program with start <= end always has start <= nowMinutes < end;
\* and 08:00-09:00 Ochtendshow, 09:00-10:30 Muziek at 09:15 resolve to
\* Muziek, 540, 630.
C1_NonWrappingRange ==
    computed =>
        /\ \A i \in 1..Len(TodayItems) :
              LET it == TodayItems[i]
              IN  (IsRangeEntry(it) /\ EntryS(it) <= EntryE(it) /\ NoneBefore(i))
                  => ((EntryS(it) <= clockMin /\ clockMin < EntryE(it))
                      <=> program = RangeProgram(it))
        /\ (program.found /\ program.end # null /\ program.start <= program.end[1])
              => (program.start <= clockMin /\ clockMin < program.end[1])
        /\ (doc[1].els = <<ElOchtend, ElMuziek>> /\ clockMin = 555)
              => program = MuziekProgram

\* At 09:00, the end of the first entry and the start of the second, the
\* second entry is the resolved program.
C1_Witness ==
    /\ computed
    /\ doc[1].els = <<ElOchtend, ElMuziek>>
    /\ clockMin = 540
    /\ program = MuziekProgram

\* C2: a range entry with s > e (no earlier entry holding the minute) is the
\* resolved program exactly when nowMinutes is in [s,1440) or in [0,e), and a
\* resolved program with start > end is never resolved at a minute of [e,s).
C2_WrappingRange ==
    computed =>
        /\ \A i \in 1..Len(TodayItems) :
              LET it == TodayItems[i]
              IN  (IsRangeEntry(it) /\ EntryS(it) > EntryE(it) /\ NoneBefore(i))
                  => ((clockMin \in EntryS(it)..(MinutesPerDay - 1)
                         \/ clockMin \in 0..(EntryE(it) - 1))
                      <=> program = RangeProgram(it))
        /\ (program.found /\ program.end # null /\ program.start > program.end[1])
              => ~(clockMin \in program.end[1]..(program.start - 1))

\* 23:00-1:00 is the resolved program at 00:59, in the part after midnight.
C2_Witness ==
    /\ computed
    /\ doc[1].els = <<ElOchtend, ElNacht>>
    /\ clockMin = 59
    /\ program = [found |-> TRUE, title |-> <<"N", "a", "c", "h", "t">>,
                  start |-> 1380, end |-> <<60>>]

\* C3: when range entries of the section hold nowMinutes, the resolved
\* program is that of the one earliest in list order.
C3_FirstMatchWins ==
    computed =>
        \A i \in 1..Len(TodayItems) :
            (Contains(TodayItems[i], clockMin) /\ NoneBefore(i))
                => program = RangeProgram(TodayItems[i])

\* Two different entries hold 23:30 and the earlier one is resolved.
C3_Witness ==
    /\ computed
    /\ Len(TodayItems) >= 2
    /\ Contains(TodayItems[1], clockMin)
    /\ Contains(TodayItems[2], clockMin)
    /\ RangeProgram(TodayItems[1]) # RangeProgram(TodayItems[2])
    /\ program = RangeProgram(TodayItems[1])

\* The start times (first HH:MM of the time text) of the entries that do not
\* exceed the clock's minute.
EligibleStarts ==
    {ItemStartOf(TodayItems[i])[1] :
        i \in {k \in 1..Len(TodayItems) :
                  /\ ItemStartOf(TodayItems[k]) # null
                  /\ ItemStartOf(TodayItems[k])[1] <= clockMin}}

NoRangeMatch == \A i \in 1..Len(TodayItems) : ~Contains(TodayItems[i], clockMin)

\* C4: when no range entry holds nowMinutes and some entry starts at or
\* before it, the resolved program has no end, its start is the greatest such
\* start whatever the order of the entries, and its title is that of an
\* entry with that start; starts 09:00, 08:00, 10:00 at 09:30 give 09:00.
C4_FallbackGreatestStart ==
    (computed /\ NoRangeMatch /\ EligibleStarts # {}) =>
        /\ program.found
        /\ program.end = null
        /\ program.start \in EligibleStarts
        /\ \A x \in EligibleStarts : x <= program.start
        /\ \E i \in 1..Len(TodayItems) :
              /\ ItemStartOf(TodayItems[i]) = <<program.start>>
              /\ program.title = EntryTitle(TodayItems[i])
        /\ (doc[1].els = <<ElP9, ElP8, ElP10>> /\ clockMin = 570)
              => program = [found |-> TRUE, title |-> <<"P", "9">>,
                            start |-> 540, end |-> null]

C4_Witness ==
    /\ computed
    /\ doc[1].els = <<ElP9, ElP8, ElP10>>
    /\ clockMin = 570
    /\ NoRangeMatch
    /\ program.start = 540
    /\ program.end = null

\* C5: when no range entry holds nowMinutes and no entry has a parseable
\* start at or before it, the result is found:false with the canned payload,
\* which is also what the output target shows.
C5_NothingQualifies ==
    (computed /\ NoRangeMatch /\ EligibleStarts = {}) =>
        /\ ~program.found
        /\ out = [html |-> [tpl |-> "muted", title |-> <<>>, time |-> <<>>],
                  found |-> FALSE]
        /\ target = out.html

\* Every entry of a non-empty section starts after the clock's minute.
C5_Witness ==
    /\ computed
    /\ Len(TodayItems) > 0
    /\ \A i \in 1..Len(TodayItems) :
          /\ ItemStartOf(TodayItems[i]) # null
          /\ ItemStartOf(TodayItems[i])[1] > clockMin
    /\ ~out.found

\* C7: the start of a resolved program, and its end when it has one, lie in
\* [0, 1440).
C7_MinutesNormalized ==
    (computed /\ program.found) =>
        /\ program.start \in 0..(MinutesPerDay - 1)
        /\ program.end # null => program.end[1] \in 0..(MinutesPerDay - 1)

\* HH:MM of a minute of the day, zero-padded.
TwoDigits(n) == <<DigitChars[(n \div 10) + 1], DigitChars[(n % 10) + 1]>>

ClockText(mins) ==
    TwoDigits((mins % MinutesPerDay) \div 60) \o <<":">> \o TwoDigits((mins % MinutesPerDay) % 60)

\* C8: the payload of a resolved program shows "start (en dash) end" when
\* the program has an end and "start (arrow)" when it has none, whatever the
\* values of start and end, 0 included.
C8_TimeLabel ==
    (computed /\ program.found) =>
        out.html.time =
            IF program.end # null
            THEN ClockText(program.start) \o <<" ", "ndash", " ">> \o ClockText(program.end[1])
            ELSE ClockText(program.start) \o <<" ", "arrow">>

(***************************************************************************)
(* Day selection (SpecDay)                                                 *)
(***************************************************************************)
\* The lowercased key of a node as the specification words it: data-day,
\* else id.
LoweredKey(n) ==
    IF n.dataDay # null /\ n.dataDay[1] # <<>> THEN toLowerCase(n.dataDay[1])
    ELSE toLowerCase(n.id)

\* The nodes whose key is the weekday name of the clock's day.
TodaySections == {i \in 1..Len(doc) : LoweredKey(doc[i]) = daysMap[clockDay + 1]}

LastOf(S) == CHOOSE i \in S : \A k \in S : k <= i

\* C6: the call always returns; with no node keyed by today's weekday name
\* the result is found:false with the canned payload, rendered to the target,
\* whatever other nodes the document has; otherwise the program is resolved
\* from the entries of the node with that key (the last such node).
C6_DaySelection ==
    computed =>
        /\ TodaySections = {} =>
              /\ ~program.found
              /\ out = [html |-> [tpl |-> "muted", title |-> <<>>, time |-> <<>>],
                        found |-> FALSE]
              /\ target = out.html
        /\ TodaySections # {} =>
              /\ program = FindProgram(ExtractItems(doc[LastOf(TodaySections)].els), clockMin)
              /\ program.found

\* A document with sections, none of them today's, resolved to found:false.
C6_Witness ==
    /\ computed
    /\ Len(doc) = 2
    /\ TodaySections = {}
    /\ \E i \in 1..Len(doc) : LoweredKey(doc[i]) \in {daysMap[k] : k \in 1..7}
    /\ ~out.found

(***************************************************************************)
(* fmt (SpecFmt)                                                           *)
(***************************************************************************)
\* C9: fmt(mins) is the zero-padded HH:MM of mins reduced modulo 1440 into
\* [0,1440), for every integer mins.
C9_FmtNormalizes == fmtIn # null => fmtOut = ClockText(fmtIn[1])

(***************************************************************************)
(* Source acquisition (SpecLoad)                                           *)
(***************************************************************************)
\* C10: a call performs no fetch when the document has a .schedule-day node;
\* otherwise it performs exactly one fetch, from its start to its return, a
\* failed fetch included; fetches are re-attempted only by further calls.
C10_FetchOnce ==
    \A c \in 1..Len(calls) :
        /\ Len(doc) > 0 => calls[c].fetches = 0 /\ calls[c].via = "local"
        /\ Len(doc) = 0 => calls[c].fetches = 1 /\ calls[c].via # "local"

\* A call has returned through the catch block after a failed fetch and a
\* second call, started by the timer, is fetching.
C10_Witness ==
    /\ Len(calls) = 2
    /\ calls[1].pc = "returned"
    /\ calls[1].via = "catch"
    /\ calls[1].err = "network"
    /\ calls[1].fetches = 1
    /\ calls[2].pc = "awaitFetch"
    /\ calls[2].fetches = 1

\* What a call can throw into its catch block: fetch rejecting, a response
\* that is not ok, resp.text() rejecting, a body without .schedule-day nodes.
FailureKinds == {"network", "status", "text", "nonodes"}

\* Call c is pending before the step and has returned after it.
Completes(c) ==
    /\ calls'[c].pc = "returned"
    /\ c <= Len(calls) => calls[c].pc # "returned"

\* C11: a call that fails on the fetch path (network error, bad status, a
\* body without day sections, an unreadable body) ends, in the step of the
\* failure, with the canned html in the output target and its promise
\* fulfilled with the canned found:false object; no promise is ever rejected.
C11_FailureIsCanned ==
    [][\A c \in 1..Len(calls') :
          /\ calls'[c].promise # "rejected"
          /\ (Completes(c) /\ calls'[c].err \in FailureKinds) =>
                /\ calls'[c].promise = "fulfilled"
                /\ calls'[c].ret = CannedOut
                /\ calls'[c].ret.found = FALSE
                /\ target' = CannedHtml]_vars

\* Three calls have failed, one by a network error, one by a bad status and
\* one by a body without day sections; the target holds the canned html.
C11_Witness ==
    /\ \A e \in {"network", "status", "nonodes"} :
          \E c \in 1..Len(calls) :
              /\ calls[c].err = e
              /\ calls[c].promise = "fulfilled"
              /\ calls[c].ret = CannedOut
    /\ target = CannedHtml

\* The call that returned last.
LastDone == CHOOSE c \in ReturnedCalls : \A d \in ReturnedCalls : calls[d].done <= calls[c].done

\* C12: every call on the fetch path has performed its own fetch, whatever
\* other calls are in flight, and the output target holds the payload of the
\* call that returned last, whichever call started first.
C12_LastWriteWins ==
    /\ \A c \in 1..Len(calls) : calls[c].via # "local" => calls[c].fetches = 1
    /\ ReturnedCalls # {} => target = calls[LastDone].ret.html

\* The second call returned first and the first call, which overlapped it,
\* returned last with a different payload: the target holds the payload of
\* the call that started first.
C12_Witness ==
    /\ Len(calls) >= 2
    /\ calls[2].done = 1
    /\ calls[1].done = 2
    /\ calls[1].fetches = 1
    /\ calls[2].fetches = 1
    /\ calls[2].ret.found
    /\ ~calls[1].ret.found
    /\ target = calls[1].ret.html
    /\ target # calls[2].ret.html

\* C16: a call has written to the output target once when it has returned
\* and not before; the target changes only in a step in which a call returns,
\* and it then holds the html of the object that call returns.
C16_OneWritePerCall ==
    [][/\ \A c \in 1..Len(calls') :
             /\ calls'[c].writes = IF calls'[c].pc = "returned" THEN 1 ELSE 0
             /\ Completes(c) => target' = calls'[c].ret.html
       /\ target' # target => \E c \in 1..Len(calls') : Completes(c)]_vars

\* On a page without day sections one call has returned a found program from
\* the fetched document and one has returned through the catch block; each
\* has written once and the target holds what the later one returned.
C16_Witness ==
    /\ \E c \in 1..Len(calls) : calls[c].via = "remote" /\ calls[c].ret.found
    /\ \E c \in 1..Len(calls) : calls[c].via = "catch"
    /\ \A c \in 1..Len(calls) : calls[c].pc = "returned" /\ calls[c].writes = 1
    /\ target = calls[LastDone].ret.html

(***************************************************************************)
(* Range entries outside their interval (SpecMatch)                        *)
(***************************************************************************)
\* C14: when every entry of today's section is a range entry and the clock's
\* minute is in none of their intervals, the call finds no program.
C14_RangeOnlyInsideInterval ==
    (/\ computed
     /\ \A i \in 1..Len(TodayItems) :
           IsRangeEntry(TodayItems[i]) /\ ~Contains(TodayItems[i], clockMin))
        => ~program.found

(***************************************************************************)
(* Escaping of the title (SpecEscape)                                      *)
(***************************************************************************)
\* The character references of HTML that escapeHtml may produce, with the
\* character each stands for.
Entities ==
    { [text |-> <<"&", "a", "m", "p", ";">>, char |-> "&"],
      [text |-> <<"&", "l", "t", ";">>, char |-> "<"],
      [text |-> <<"&", "g", "t", ";">>, char |-> ">"],
      [text |-> <<"&", "q", "u", "o", "t", ";">>, char |-> "\""],
      [text |-> <<"&", "#", "3", "9", ";">>, char |-> "'"] }

\* Whether the text t stands at position i of s.
StandsAt(s, i, t) ==
    /\ i + Len(t) - 1 <= Len(s)
    /\ \A k \in 1..Len(t) : s[i + k - 1] = t[k]

\* No <, >, " or ' stands in s, and every & of s opens a character reference.
NoMarkup(s) ==
    \A i \in 1..Len(s) :
        /\ s[i] \notin {"<", ">", "\"", "'"}
        /\ s[i] = "&" => \E e \in Entities : StandsAt(s, i, e.text)

\* The text a browser shows for the markup s from position i on: character
\* references replaced by their characters.
RECURSIVE ShownFrom(_, _)
ShownFrom(s, i) ==
    IF i > Len(s) THEN <<>>
    ELSE IF \E e \in Entities : StandsAt(s, i, e.text)
         THEN LET e == CHOOSE x \in Entities : StandsAt(s, i, x.text)
              IN  <<e.char>> \o ShownFrom(s, i + Len(e.text))
         ELSE <<s[i]>> \o ShownFrom(s, i + 1)

\* C13: the title in the rendered payload holds no <, >, " or ' and no &
\* other than the one opening a character reference, and it reads back as
\* the title of the program: every &, <, >, " and ' of the title is there as
\* its character reference.
C13_TitleEscaped ==
    program.found =>
        /\ NoMarkup(target.title)
        /\ ShownFrom(target.title, 1) = program.title

\* The title <script> is rendered as &lt;script&gt;.
C13_Witness ==
    /\ program.found
    /\ program.title = ScriptTitle
    /\ target.title = <<"&", "l", "t", ";", "s", "c", "r", "i", "p", "t", "&", "g", "t", ";">>

(***************************************************************************)
(* The carousel (SpecCarousel)                                             *)
(***************************************************************************)
\* C15: while the pointer is over the carousel or the focus is inside it
\* (after a mouseenter or focusin and before the matching mouseleave or
\* focusout), no autoplay interval of the carousel is running.
C15_PausedWhileHoverOrFocus == (hover \/ focus) => live = {}

\* goTo is checked for every argument of -MaxGoToArg .. MaxGoToArg.
MaxGoToArg == 7

\* C17: after every operation the carousel has at least one slide and its
\* index is one of 0 .. slides-1; goTo(i) gives such an index for every
\* integer i, negative ones included; next from the last slide gives 0 and
\* prev from slide 0 gives the last slide.
C17_IndexInRange ==
    [][/\ slides' >= 1
       /\ index' \in 0..(slides' - 1)
       /\ \A i \in (0 - MaxGoToArg)..MaxGoToArg : Wrap(i, slides') \in 0..(slides' - 1)
       /\ NextClick => index' = IF index = slides - 1 THEN 0 ELSE index + 1
       /\ PrevClick => index' = IF index = 0 THEN slides - 1 ELSE index - 1]_vars

\* An autoplay carousel of three slides one goTo after initCarousel, on its
\* last slide: prev was clicked on slide 0, or the last dot.
C17_Witness ==
    /\ slides = 3
    /\ index = 2
    /\ activeDot = 2
    /\ nextTimerId = 3
    /\ autoplay

\* C18: a carousel has at most one live interval, the one `timer` holds, and
\* none when `timer` is null; a carousel whose data-autoplay is not 'true'
\* has none.
C18_OneTimer ==
    /\ Cardinality(live) <= 1
    /\ timer = null => live = {}
    /\ timer # null => live = {timer[1]}
    /\ ~autoplay => live = {}

\* An autoplay carousel after four resets: the interval set last is the only
\* live one.
C18_Witness ==
    /\ autoplay
    /\ nextTimerId = 5
    /\ timer = <<4>>
    /\ live = {4}

(***************************************************************************)
(* The sticky header (SpecHeader)                                          *)
(***************************************************************************)
\* C19: at most one update is pending in the animation frames, and `ticking`
\* says whether one is; when no scroll event is queued and no update is
\* pending, the header has class scrolled exactly when the scroll position is
\* greater than 60.
C19_ThrottledUpdate ==
    /\ rafPending <= 1
    /\ ticking <=> rafPending = 1
    /\ (~scrollEvt /\ rafPending = 0) => (header = "scrolled" <=> scrollY > 60)

\* An update is pending for an earlier scroll event while a later one is
\* still queued: the header is plain at a scroll position beyond 60.
C19_Witness ==
    /\ ticking
    /\ rafPending = 1
    /\ scrollEvt
    /\ scrollY = 61
    /\ header = "plain"

(***************************************************************************)
(* The day tabs (SpecTabs)                                                 *)
(***************************************************************************)
\* The tabs that have aria-pressed 'true'.
PressedTabs == {i \in 1..Len(tabs) : tabs[i].pressed}

\* C20: once initDayTabs has run, exactly one tab of the container has
\* aria-pressed 'true', and a section is hidden exactly when that tab's day
\* is not 'all' and differs from the section's lowercased key.
C20_OnePressedTab ==
    tabsReady =>
    /\ Cardinality(PressedTabs) = 1
    /\ \A k \in PressedTabs, i \in 1..Len(doc) :
          hidden[i] <=> (TabDay(tabs[k]) # All /\ TabDay(tabs[k]) # SectionKey(doc[i]))

=============================================================================
